---------------------------- MODULE Spec2Model ----------------------------
(***************************************************************************)
(* Model of src/src/lambda_function.py: the contact-form submission        *)
(* handler.  Several invocations of lambda_handler run against one table;  *)
(* every invocation is split at the one call that touches the table.       *)
(*                                                                         *)
(* Python strings are sequences of one-character strings, so that the      *)
(* substring test `in`, the JSON lexer and json.dumps work on the text.    *)
(* A Python value is a record [t |-> type, v |-> payload].                 *)
(***************************************************************************)
EXTENDS Integers, Sequences, FiniteSets, TLC

(* ------------------------------ bounds -------------------------------- *)

\* number of invocations of lambda_handler in a run
MaxInv == 2
\* the clock readings utcnow() can return are 0..MaxClock (seconds)
MaxClock == 1

Invocations == 1..MaxInv
Times == 0..MaxClock

(* ------------------------- Python values ------------------------------ *)

PyNone == [t |-> "NoneType", v |-> <<>>]
PyStr(cs) == [t |-> "str", v |-> cs]
PyInt(ds) == [t |-> "int", v |-> ds]
PyBool(b) == [t |-> "bool", v |-> b]
PyList(xs) == [t |-> "list", v |-> xs]
PyDict(m) == [t |-> "dict", v |-> m]

EmptyMap == [k \in {} |-> PyNone]

\* d[k] = x on a dict's mapping: a later assignment to the same key wins
MapSet(m, k, x) == [j \in (DOMAIN m) \cup {k} |-> IF j = k THEN x ELSE m[j]]

\* == on the values that occur here; values of different types are unequal
PyEq(a, b) == a.t = b.t /\ a.v = b.v

\* the result of an expression: a value, or the exception it raised
Value(x) == [exc |-> "none", val |-> x]
Raise(e) == [exc |-> e, val |-> PyNone]

(* ------------------------- string literals ---------------------------- *)

kName == <<"n","a","m","e">>
kEmail == <<"e","m","a","i","l">>
kMessage == <<"m","e","s","s","a","g","e">>
kId == <<"i","d">>
kSubmittedAt == <<"s","u","b","m","i","t","t","e","d","A","t">>
kError == <<"e","r","r","o","r">>

MsgMissing == <<"M","i","s","s","i","n","g"," ","r","e","q","u","i","r","e","d"," ","f","i","e","l","d","s",":"," ","n","a","m","e",","," ","e","m","a","i","l",","," ","m","e","s","s","a","g","e">>
MsgSuccess == <<"F","o","r","m"," ","s","u","b","m","i","t","t","e","d"," ","s","u","c","c","e","s","s","f","u","l","l","y","!">>
MsgInternal == <<"A","n"," ","i","n","t","e","r","n","a","l"," ","e","r","r","o","r"," ","o","c","c","u","r","r","e","d",".">>

(* ------------------------------ json ---------------------------------- *)

Quote == "\""
PunctChars == {"{", "}", "[", "]", ":", ","}
DigitChars == {"0","1","2","3","4","5","6","7","8","9"}
LetterChars == {"a","e","f","l","n","r","s","t","u"}

Tok(k, cs) == [k |-> k, v |-> cs]
LBrace == Tok("punct", <<"{">>)
RBrace == Tok("punct", <<"}">>)
LBracket == Tok("punct", <<"[">>)
RBracket == Tok("punct", <<"]">>)
Colon == Tok("punct", <<":">>)
Comma == Tok("punct", <<",">>)

\* the index of the first character from i on that is not in S (Len+1 if none)
RECURSIVE RunEnd(_, _, _)
RunEnd(cs, i, S) ==
  IF i > Len(cs) \/ cs[i] \notin S THEN i ELSE RunEnd(cs, i + 1, S)

\* the index of the first double quote from i on (0 if none)
RECURSIVE QuoteAt(_, _)
QuoteAt(cs, i) ==
  IF i > Len(cs) THEN 0
  ELSE IF cs[i] = Quote THEN i
  ELSE QuoteAt(cs, i + 1)

\* the scanner of json.loads on the texts used here (no escapes, no signs)
RECURSIVE Lex(_, _, _)
Lex(cs, i, acc) ==
  IF i > Len(cs) THEN [ok |-> TRUE, toks |-> acc]
  ELSE LET c == cs[i] IN
    IF c = " " THEN Lex(cs, i + 1, acc)
    ELSE IF c \in PunctChars THEN Lex(cs, i + 1, Append(acc, Tok("punct", <<c>>)))
    ELSE IF c = Quote THEN
      LET j == QuoteAt(cs, i + 1) IN
      IF j = 0 THEN [ok |-> FALSE, toks |-> <<>>]
      ELSE Lex(cs, j + 1, Append(acc, Tok("string", SubSeq(cs, i + 1, j - 1))))
    ELSE IF c \in DigitChars THEN
      LET j == RunEnd(cs, i, DigitChars) IN
      Lex(cs, j, Append(acc, Tok("number", SubSeq(cs, i, j - 1))))
    ELSE IF c \in LetterChars THEN
      LET j == RunEnd(cs, i, LetterChars) IN
      Lex(cs, j, Append(acc, Tok("literal", SubSeq(cs, i, j - 1))))
    ELSE [ok |-> FALSE, toks |-> <<>>]

ParseFail == [ok |-> FALSE, val |-> PyNone, rest |-> <<>>]
ParseOk(x, r) == [ok |-> TRUE, val |-> x, rest |-> r]

RECURSIVE ParseValue(_)
RECURSIVE ParseMembers(_, _)
RECURSIVE ParseElements(_, _)

\* one JSON value at the head of the tokens ts
ParseValue(ts) ==
  IF ts = <<>> THEN ParseFail
  ELSE LET h == Head(ts)
           r == Tail(ts) IN
    IF h.k = "string" THEN ParseOk(PyStr(h.v), r)
    ELSE IF h.k = "number" THEN ParseOk(PyInt(h.v), r)
    ELSE IF h.k = "literal" THEN
      IF h.v = <<"n","u","l","l">> THEN ParseOk(PyNone, r)
      ELSE IF h.v = <<"t","r","u","e">> THEN ParseOk(PyBool(TRUE), r)
      ELSE IF h.v = <<"f","a","l","s","e">> THEN ParseOk(PyBool(FALSE), r)
      ELSE ParseFail
    ELSE IF h = LBrace THEN
      IF r # <<>> /\ Head(r) = RBrace THEN ParseOk(PyDict(EmptyMap), Tail(r))
      ELSE ParseMembers(r, EmptyMap)
    ELSE IF h = LBracket THEN
      IF r # <<>> /\ Head(r) = RBracket THEN ParseOk(PyList(<<>>), Tail(r))
      ELSE ParseElements(r, <<>>)
    ELSE ParseFail

\* "key": value pairs up to the closing brace; acc is the dict so far
ParseMembers(ts, acc) ==
  IF Len(ts) < 3 \/ ts[1].k # "string" \/ ts[2] # Colon THEN ParseFail
  ELSE LET pv == ParseValue(SubSeq(ts, 3, Len(ts))) IN
    IF ~pv.ok \/ pv.rest = <<>> THEN ParseFail
    ELSE LET acc2 == MapSet(acc, ts[1].v, pv.val) IN
      IF Head(pv.rest) = RBrace THEN ParseOk(PyDict(acc2), Tail(pv.rest))
      ELSE IF Head(pv.rest) = Comma THEN ParseMembers(Tail(pv.rest), acc2)
      ELSE ParseFail

\* values up to the closing bracket; acc is the list so far
ParseElements(ts, acc) ==
  LET pv == ParseValue(ts) IN
  IF ~pv.ok \/ pv.rest = <<>> THEN ParseFail
  ELSE LET acc2 == Append(acc, pv.val) IN
    IF Head(pv.rest) = RBracket THEN ParseOk(PyList(acc2), Tail(pv.rest))
    ELSE IF Head(pv.rest) = Comma THEN ParseElements(Tail(pv.rest), acc2)
    ELSE ParseFail

\* json.loads(s): TypeError unless s is a str, JSONDecodeError unless the
\* whole text is one JSON value
json_loads(s) ==
  IF s.t # "str" THEN Raise("TypeError")
  ELSE LET lx == Lex(s.v, 1, <<>>) IN
    IF ~lx.ok THEN Raise("JSONDecodeError")
    ELSE LET p == ParseValue(lx.toks) IN
      IF p.ok /\ p.rest = <<>> THEN Value(p.val) ELSE Raise("JSONDecodeError")

RECURSIVE json_dumps(_)
RECURSIVE DumpMembers(_, _)
RECURSIVE DumpElements(_, _)

\* the members of dict mapping m whose keys are in ks, ", "-separated
DumpMembers(m, ks) ==
  IF ks = {} THEN <<>>
  ELSE LET k == CHOOSE x \in ks : TRUE
           one == <<Quote>> \o k \o <<Quote, ":", " ">> \o json_dumps(m[k]) IN
    IF ks = {k} THEN one ELSE one \o <<",", " ">> \o DumpMembers(m, ks \ {k})

\* the elements xs[i..] of a list, ", "-separated
DumpElements(xs, i) ==
  IF i > Len(xs) THEN <<>>
  ELSE IF i = Len(xs) THEN json_dumps(xs[i])
  ELSE json_dumps(xs[i]) \o <<",", " ">> \o DumpElements(xs, i + 1)

\* json.dumps(x) with the default separators
json_dumps(x) ==
  IF x.t = "str" THEN <<Quote>> \o x.v \o <<Quote>>
  ELSE IF x.t = "int" THEN x.v
  ELSE IF x.t = "NoneType" THEN <<"n","u","l","l">>
  ELSE IF x.t = "bool" THEN
    (IF x.v THEN <<"t","r","u","e">> ELSE <<"f","a","l","s","e">>)
  ELSE IF x.t = "list" THEN <<"[">> \o DumpElements(x.v, 1) \o <<"]">>
  ELSE <<"{">> \o DumpMembers(x.v, DOMAIN x.v) \o <<"}">>

(* ------------------------ Python operations --------------------------- *)

\* needle in hay, on str
Substring(needle, hay) ==
  \E i \in 1..(Len(hay) - Len(needle) + 1) :
    SubSeq(hay, i, i + Len(needle) - 1) = needle

\* x in c
PyIn(x, c) ==
  IF c.t = "dict" THEN Value(PyBool(x.t = "str" /\ x.v \in DOMAIN c.v))
  ELSE IF c.t = "list" THEN Value(PyBool(\E i \in 1..Len(c.v) : PyEq(c.v[i], x)))
  ELSE IF c.t = "str" THEN
    (IF x.t = "str" THEN Value(PyBool(Substring(x.v, c.v))) ELSE Raise("TypeError"))
  ELSE Raise("TypeError")

\* c[k] with a str k
PyGetItem(c, k) ==
  IF c.t = "dict" THEN
    (IF k.v \in DOMAIN c.v THEN Value(c.v[k.v]) ELSE Raise("KeyError"))
  ELSE Raise("TypeError")

\* d.get(k, default) on the event, a dict with str keys
DictGet(d, k, default) == IF k \in DOMAIN d THEN d[k] ELSE default

\* a faulty variant of uuid4: the id is generated once, when the module is loaded
uuid4Fixed(generated) == 1

\* uuid4 values are opaque and pairwise distinct; the model numbers them in
\* the order they are generated, 1, 2, ... (at most 9)
uuid4(generated) == Cardinality(generated) + 1

Digit(n) == <<"0","1","2","3","4","5","6","7","8","9">>[n + 1]

\* str(uuid): 8-4-4-4-12 hexadecimal, version 4
UuidStr(u) ==
  <<"0","0","0","0","0","0","0","0","-","0","0","0","0","-","4","0","0","0","-",
    "8","0","0","0","-","0","0","0","0","0","0","0","0","0","0","0">> \o <<Digit(u)>>

\* datetime.isoformat() of the clock reading t: no offset suffix, and no
\* fraction when the microseconds are zero
isoformat(t) ==
  <<"2","0","2","5","-","0","1","-","0","1","T","0","0",":","0","0",":","0">> \o <<Digit(t)>>

(* --------------------------- lambda_handler --------------------------- *)

\* a faulty variant of AllRequired: any() in place of all()
RECURSIVE AnyRequired(_, _)
AnyRequired(body, i) ==
  IF i > 3 THEN Value(PyBool(FALSE))
  ELSE LET r == PyIn(PyStr(<<kName, kEmail, kMessage>>[i]), body) IN
    IF r.exc # "none" THEN r
    ELSE IF r.val.v THEN Value(PyBool(TRUE))
    ELSE AnyRequired(body, i + 1)

required_fields == <<kName, kEmail, kMessage>>

\* all(field in body for field in required_fields), from field i on
RECURSIVE AllRequired(_, _)
AllRequired(body, i) ==
  IF i > Len(required_fields) THEN Value(PyBool(TRUE))
  ELSE LET r == PyIn(PyStr(required_fields[i]), body) IN
    IF r.exc # "none" THEN r
    ELSE IF ~r.val.v THEN Value(PyBool(FALSE))
    ELSE AllRequired(body, i + 1)

DefaultBody == PyStr(<<"{", "}">>)

\* body = json.loads(event.get('body', '{}'))
ParseBody(event) == json_loads(DictGet(event, "body", DefaultBody))

Headers ==
  ("Content-Type" :> "application/json") @@ ("Access-Control-Allow-Origin" :> "*")

Returned(status, key, text) ==
  [kind |-> "returned",
   statusCode |-> status,
   headers |-> Headers,
   body |-> json_dumps(PyDict(MapSet(EmptyMap, key, PyStr(text))))]

\* a faulty variant of Response500: the except clause forgets the CORS header
Response500NoCors ==
  [kind |-> "returned",
   statusCode |-> 500,
   headers |-> ("Content-Type" :> "application/json"),
   body |-> json_dumps(PyDict(MapSet(EmptyMap, kError, PyStr(MsgInternal))))]

Response400 == Returned(400, kError, MsgMissing)
Response200 == Returned(200, kMessage, MsgSuccess)
Response500 == Returned(500, kError, MsgInternal)

\* a faulty variant of Except: the response carries str(e)
ExceptLeaks(exc) == Returned(500, kError, <<exc>>)

\* a faulty variant of Except: the clause is `except KeyError`, anything else propagates
ExceptNarrow(exc) ==
  IF exc = "KeyError" THEN Returned(500, kError, MsgInternal)
  ELSE [kind |-> "propagated", statusCode |-> 0, headers |-> EmptyMap, body |-> <<>>]

\* what the invocation yields when exc is raised inside the try block
Except(exc) == Response500

NoResponse == [kind |-> "none"]

\* a faulty variant of NewItem: name and email are swapped
NewItemSwapped(body, u, t) ==
  (kId :> PyStr(UuidStr(u)))
    @@ (kName :> PyGetItem(body, PyStr(kEmail)).val)
    @@ (kEmail :> PyGetItem(body, PyStr(kName)).val)
    @@ (kMessage :> PyGetItem(body, PyStr(kMessage)).val)
    @@ (kSubmittedAt :> PyStr(isoformat(t)))

\* a faulty variant of NewItem: the item is the body with id and submittedAt added
\* only where the caller sent none
NewItemMerged(body, u, t) ==
  body.v @@ (kId :> PyStr(UuidStr(u))) @@ (kSubmittedAt :> PyStr(isoformat(t)))

\* the item built from the parsed body, the uuid u and the clock reading t
NewItem(body, u, t) ==
  (kId :> PyStr(UuidStr(u)))
    @@ (kName :> PyGetItem(body, PyStr(kName)).val)
    @@ (kEmail :> PyGetItem(body, PyStr(kEmail)).val)
    @@ (kMessage :> PyGetItem(body, PyStr(kMessage)).val)
    @@ (kSubmittedAt :> PyStr(isoformat(t)))

\* the exception raised by body['name'], body['email'], body['message'], if any
ExtractExc(body) ==
  LET n == PyGetItem(body, PyStr(kName))
      e == PyGetItem(body, PyStr(kEmail))
      m == PyGetItem(body, PyStr(kMessage)) IN
  IF n.exc # "none" THEN n.exc
  ELSE IF e.exc # "none" THEN e.exc
  ELSE m.exc

\* a faulty variant of put_item: the write replaces the whole table
put_itemClobber(tbl, it) == MapSet(EmptyMap, it[kId].v, it)

\* a faulty variant of put_item: the write is dropped
put_itemDropped(tbl, it) == tbl

\* table.put_item(Item=item): insert, or replace the item with the same id
put_item(tbl, it) == MapSet(tbl, it[kId].v, it)

NoItem == EmptyMap

NotParsed == [exc |-> "unset", val |-> PyNone]

(* ------------------------------ inputs -------------------------------- *)

sA == PyStr(<<"A">>)
sB == PyStr(<<"B">>)

Required == {kName, kEmail, kMessage}

\* objects that lack at least one of the required keys
PartialObjects == { PyDict([k \in S |-> sA]) : S \in (SUBSET Required) \ {Required} }

\* {"name": "A", "email": "", "message": "B"}
FullPlain == PyDict((kName :> sA) @@ (kEmail :> PyStr(<<>>)) @@ (kMessage :> sB))

Extras == (kId :> PyStr(UuidStr(1))) @@ (kSubmittedAt :> sB) @@ (<<"x">> :> PyInt(<<"7">>))

FullWithExtras == PyDict([k \in Required |-> sB] @@ Extras)

InputValues ==
  PartialObjects
    \cup {FullPlain, FullWithExtras, PyDict(Extras)}
    \cup {PyList(<<PyStr(kName), PyStr(kEmail), PyStr(kMessage)>>)}
    \cup {PyStr(kName \o kEmail \o kMessage)}
    \cup {PyInt(<<"5">>)}

\* {"name":"A","name":"B"}, written compactly
DuplicateKeyText ==
  <<"{">> \o <<Quote>> \o kName \o <<Quote, ":", Quote, "A", Quote, ",">>
    \o <<Quote>> \o kName \o <<Quote, ":", Quote, "B", Quote>> \o <<"}">>

\* the empty text, and {"name"}
MalformedTexts == { <<>>, <<"{", Quote>> \o kName \o <<Quote, "}">> }

Texts == { json_dumps(x) : x \in InputValues } \cup {DuplicateKeyText} \cup MalformedTexts

\* the events: no body key, body None, body a text
Events ==
  {EmptyMap, [body |-> PyNone]} \cup { [body |-> PyStr(cs)] : cs \in Texts }

\* every event paired with what line 21 gives for it
ParsedEvents == { <<e, ParseBody(e)>> : e \in Events }

(* ------------------------------- state -------------------------------- *)

VARIABLES
  pc,         \* where each invocation is: "idle", "built", "stored", "done"
  event,      \* the event each invocation was called with
  body,       \* the outcome of line 21 in each invocation: the parsed body
  item,       \* the local item of each invocation
  minted,     \* the uuid and clock reading each invocation generated
  putResult,  \* how each invocation's put_item ended: "none", "ok", "ClientError"
  caught,     \* the exception each invocation caught, "none" if none
  response,   \* what each invocation returned
  puts,       \* the number of put_item calls of each invocation
  generated,  \* the uuids generated so far
  table       \* the table: id -> item

vars == <<pc, event, body, item, minted, putResult, caught, response, puts, generated, table>>

Init ==
  /\ pc = [i \in Invocations |-> "idle"]
  /\ event = [i \in Invocations |-> EmptyMap]
  /\ body = [i \in Invocations |-> NotParsed]
  /\ item = [i \in Invocations |-> NoItem]
  /\ minted = [i \in Invocations |-> [uuid |-> 0, time |-> 0]]
  /\ putResult = [i \in Invocations |-> "none"]
  /\ caught = [i \in Invocations |-> "none"]
  /\ response = [i \in Invocations |-> NoResponse]
  /\ puts = [i \in Invocations |-> 0]
  /\ generated = {}
  /\ table = EmptyMap

\* the except clause, lines 68-78
Fail(i, exc) ==
  /\ caught' = [caught EXCEPT ![i] = exc]
  /\ response' = [response EXCEPT ![i] = Except(exc)]
  /\ pc' = [pc EXCEPT ![i] = "done"]

\* lines 17-52: parse, validate, extract, generate the id and the timestamp
Begin(i) ==
  /\ pc[i] = "idle"
  /\ \E pe \in ParsedEvents :
       /\ event' = [event EXCEPT ![i] = pe[1]]
       /\ body' = [body EXCEPT ![i] = pe[2]]
       /\ LET parsed == pe[2] IN
          IF parsed.exc # "none"
          THEN /\ Fail(i, parsed.exc)
               /\ UNCHANGED <<item, minted, generated>>
          ELSE LET ok == AllRequired(parsed.val, 1) IN
            IF ok.exc # "none"
            THEN /\ Fail(i, ok.exc)
                 /\ UNCHANGED <<item, minted, generated>>
            ELSE IF ~ok.val.v
            THEN /\ response' = [response EXCEPT ![i] = Response400]
                 /\ pc' = [pc EXCEPT ![i] = "done"]
                 /\ UNCHANGED <<item, minted, generated, caught>>
            ELSE IF ExtractExc(parsed.val) # "none"
            THEN /\ Fail(i, ExtractExc(parsed.val))
                 /\ UNCHANGED <<item, minted, generated>>
            ELSE \E t \in Times :
                   LET u == uuid4(generated) IN
                   /\ item' = [item EXCEPT ![i] = NewItem(parsed.val, u, t)]
                   /\ minted' = [minted EXCEPT ![i] = [uuid |-> u, time |-> t]]
                   /\ generated' = generated \cup {u}
                   /\ pc' = [pc EXCEPT ![i] = "built"]
                   /\ UNCHANGED <<caught, response>>
  /\ UNCHANGED <<putResult, puts, table>>

\* line 55, the write succeeds
PutOk(i) ==
  /\ pc[i] = "built"
  /\ table' = put_item(table, item[i])
  /\ puts' = [puts EXCEPT ![i] = @ + 1]
  /\ putResult' = [putResult EXCEPT ![i] = "ok"]
  /\ pc' = [pc EXCEPT ![i] = "stored"]
  /\ UNCHANGED <<event, body, item, minted, caught, response, generated>>

\* line 55, put_item raises (the table is unavailable, the request is refused)
PutRaises(i) ==
  /\ pc[i] = "built"
  /\ puts' = [puts EXCEPT ![i] = @ + 1]
  /\ putResult' = [putResult EXCEPT ![i] = "ClientError"]
  /\ Fail(i, "ClientError")
  /\ UNCHANGED <<event, body, item, minted, generated, table>>

\* lines 56-66: log the item and return the success response
Finish(i) ==
  /\ pc[i] = "stored"
  /\ response' = [response EXCEPT ![i] = Response200]
  /\ pc' = [pc EXCEPT ![i] = "done"]
  /\ UNCHANGED <<event, body, item, minted, putResult, caught, puts, generated, table>>

\* line 56 raises: print cannot write the log line (OSError)
LogRaises(i) ==
  /\ pc[i] = "stored"
  /\ Fail(i, "OSError")
  /\ UNCHANGED <<event, body, item, minted, putResult, puts, generated, table>>

Next == \E i \in Invocations : Begin(i) \/ PutOk(i) \/ PutRaises(i) \/ Finish(i)

Spec == Init /\ [][Next]_vars

\* the same handler where writing the log line after the put can fail
NextLog == Next \/ \E i \in Invocations : LogRaises(i)

SpecLog == Init /\ [][NextLog]_vars

(* ============================== claims =============================== *)

Done(i) == pc[i] = "done"
Started(i) == pc[i] # "idle"

\* what parsing invocation i's body gave: the value, or the exception
Parsed(i) == body[i]

\* the body parsed to an object
IsObject(i) == Parsed(i).exc = "none" /\ Parsed(i).val.t = "dict"

\* the body parsed to an object holding name, email and message
HasAllKeys(i) == IsObject(i) /\ Required \subseteq DOMAIN Parsed(i).val.v

\* the event carries no body: the key is missing, or its value is None
BodyAbsent(i) == "body" \notin DOMAIN event[i] \/ event[i]["body"].t = "NoneType"

\* invocation i built an item and the table holds it under its id
InTable(i) ==
  /\ DOMAIN item[i] # {}
  /\ item[i][kId].v \in DOMAIN table
  /\ table[item[i][kId].v] = item[i]

ItemKeys == {kId, kName, kEmail, kMessage, kSubmittedAt}

\* the three response bodies, character by character
TextMissing == <<"{", Quote>> \o kError \o <<Quote, ":", " ", Quote>> \o MsgMissing \o <<Quote, "}">>
TextSuccess == <<"{", Quote>> \o kMessage \o <<Quote, ":", " ", Quote>> \o MsgSuccess \o <<Quote, "}">>
TextInternal == <<"{", Quote>> \o kError \o <<Quote, ":", " ", Quote>> \o MsgInternal \o <<Quote, "}">>

Is(r, status, text) == r.kind = "returned" /\ r.statusCode = status /\ r.body = text

C2_MissingKeyAlways400 ==
  \A i \in Invocations :
    (Done(i) /\ Parsed(i).exc = "none" /\ ~HasAllKeys(i)) =>
      /\ Is(response[i], 400, TextMissing)
      /\ puts[i] = 0

\* C2 amended: every input whose body parses to an object that lacks one of
\* the three keys, whatever else the object holds, returns 400 with the
\* fixed body; no item is built and no put is made.
C2_ObjectMissingKey400 ==
  \A i \in Invocations :
    (Done(i) /\ IsObject(i) /\ ~HasAllKeys(i)) =>
      /\ Is(response[i], 400, TextMissing)
      /\ puts[i] = 0
      /\ item[i] = NoItem
      /\ caught[i] = "none"

\* C2 witness: an object with id, submittedAt and x but none of the three
\* keys, and an object with name and email only, were both answered
C2_Witness ==
  \E i, j \in Invocations :
    /\ Done(i) /\ IsObject(i) /\ Parsed(i).val = PyDict(Extras)
    /\ Done(j) /\ IsObject(j) /\ DOMAIN Parsed(j).val.v = {kName, kEmail}

\* C3 as stated: a request with no body (key missing, or None) is answered as
\* an empty object is: 400 with the missing-fields body, with no put.
C3_AbsentBodyIs400 ==
  \A i \in Invocations :
    (Done(i) /\ BodyAbsent(i)) =>
      /\ Is(response[i], 400, TextMissing)
      /\ puts[i] = 0

\* C4: when put_item raises, the invocation returns 500 with the fixed
\* internal-error body.
C4_StoreFailure500 ==
  \A i \in Invocations :
    putResult[i] = "ClientError" =>
      /\ Done(i)
      /\ Is(response[i], 500, TextInternal)
      /\ response[i].headers = Headers

\* C4 witness: a put raised for a request that had passed validation
C4_Witness ==
  \E i \in Invocations :
    putResult[i] = "ClientError" /\ HasAllKeys(i) /\ Done(i) /\ puts[i] = 1

\* C5: every failure while parsing, validating or writing is caught and
\* answered 500: a body that does not parse yields 500 and no put; every
\* finished invocation returned a response (nothing propagates); and any two
\* failed invocations, whatever their causes, returned the same response.
C5_FailuresCaughtUniform ==
  /\ \A i \in Invocations :
       Done(i) =>
         /\ response[i].kind = "returned"
         /\ Parsed(i).exc # "none" =>
              /\ Is(response[i], 500, TextInternal)
              /\ puts[i] = 0
              /\ ~InTable(i)
         /\ caught[i] # "none" => Is(response[i], 500, TextInternal)
         /\ (putResult[i] = "ClientError" \/ Parsed(i).exc # "none") =>
              caught[i] # "none"
  /\ \A i, j \in Invocations :
       (caught[i] # "none" /\ caught[j] # "none") => response[i] = response[j]

\* C5 witness: one invocation failed on a body that is no JSON, another on
\* the put
C5_Witness ==
  \E i, j \in Invocations :
    /\ Done(i) /\ caught[i] = "JSONDecodeError"
    /\ Done(j) /\ caught[j] = "ClientError"

\* C6: every response carries Content-Type: application/json and
\* Access-Control-Allow-Origin: *, and its status and body are one of
\* (200, success), (400, missing fields), (500, internal error).
C6_ResponseShape ==
  \A i \in Invocations :
    Done(i) =>
      /\ response[i].kind = "returned"
      /\ DOMAIN response[i].headers = {"Content-Type", "Access-Control-Allow-Origin"}
      /\ response[i].headers["Content-Type"] = "application/json"
      /\ response[i].headers["Access-Control-Allow-Origin"] = "*"
      /\ \/ Is(response[i], 200, TextSuccess)
         \/ Is(response[i], 400, TextMissing)
         \/ Is(response[i], 500, TextInternal)

\* C6 witness: a run in which a 400 and a 500 were returned
C6_Witness ==
  \E i, j \in Invocations :
    /\ Done(i) /\ response[i].statusCode = 400
    /\ Done(j) /\ response[j].statusCode = 500

\* C7: two successful invocations with the same name, email and message
\* leave two records with two distinct ids in the table.
C7_NotIdempotent ==
  \A i, j \in Invocations :
    ( /\ i # j
      /\ Done(i) /\ Is(response[i], 200, TextSuccess)
      /\ Done(j) /\ Is(response[j], 200, TextSuccess)
      /\ HasAllKeys(i) /\ HasAllKeys(j)
      /\ \A k \in Required : PyEq(Parsed(i).val.v[k], Parsed(j).val.v[k]) ) =>
        /\ item[i][kId].v # item[j][kId].v
        /\ InTable(i)
        /\ InTable(j)
        /\ Cardinality(DOMAIN table) >= 2

\* C7 witness: the same event was submitted twice and answered 200 twice
C7_Witness ==
  \E i, j \in Invocations :
    /\ i # j
    /\ event[i] = event[j]
    /\ Done(i) /\ response[i].statusCode = 200
    /\ Done(j) /\ response[j].statusCode = 200

\* an invocation's response is fixed by its own event and its own put
Independent ==
  \A i, j \in Invocations :
    (Done(i) /\ Done(j) /\ event[i] = event[j] /\ putResult[i] = putResult[j])
      => response[i] = response[j]

\* C8: every invocation makes at most one put; a record in the table is
\* never changed, replaced or removed by a later step; and an invocation's
\* response does not depend on what other invocations left behind.
C8_WriteOnceStoreGrows ==
  [][ /\ \A k \in DOMAIN table : k \in DOMAIN table' /\ table'[k] = table[k]
      /\ \A i \in Invocations : puts'[i] <= 1
      /\ Independent' ]_vars

\* C8 witness: every invocation has put once and the table holds two records
C8_Witness ==
  /\ \A i \in Invocations : puts[i] = 1
  /\ Cardinality(DOMAIN table) >= 2

\* C9: the item's id and submittedAt are the generated values; a body that
\* also carries id, submittedAt or other keys is accepted, and the item and
\* the stored record have exactly the attributes id, name, email, message,
\* submittedAt.
C9_GeneratedIdAndTime ==
  \A i \in Invocations :
    /\ DOMAIN item[i] # {} =>
         /\ DOMAIN item[i] = ItemKeys
         /\ item[i][kId] = PyStr(UuidStr(minted[i].uuid))
         /\ item[i][kSubmittedAt] = PyStr(isoformat(minted[i].time))
         /\ minted[i].uuid \in generated
    /\ putResult[i] = "ok" => InTable(i)
    /\ (Done(i) /\ HasAllKeys(i) /\ putResult[i] = "ok") =>
         Is(response[i], 200, TextSuccess)
    /\ (Started(i) /\ HasAllKeys(i)) => DOMAIN item[i] # {}

\* C9 witness: a body carrying its own id, submittedAt and x was stored and
\* answered 200, under an id other than the one the caller sent
C9_Witness ==
  \E i \in Invocations :
    /\ Done(i) /\ response[i].statusCode = 200 /\ InTable(i)
    /\ IsObject(i) /\ {kId, kSubmittedAt, <<"x">>} \subseteq DOMAIN Parsed(i).val.v
    /\ ~PyEq(Parsed(i).val.v[kId], item[i][kId])

\* C10 as stated: a request's record is in the table if and only if its
\* response is 200.
C10_RecordIffSuccess ==
  \A i \in Invocations :
    Done(i) => (response[i].statusCode = 200 <=> InTable(i))

\* C10 amended: a 200 is returned only after the put succeeded, and then
\* the record is in the table; a 400, and a 500 caused by parsing, by
\* validation or by the put, leave no record; a 500 caused by a failure
\* after the put (logging the item) leaves the record in the table.
C10_RecordUnlessLateFailure ==
  \A i \in Invocations :
    /\ response[i] # NoResponse => Done(i)
    /\ Done(i) =>
         /\ response[i].statusCode = 200 => (putResult[i] = "ok" /\ InTable(i))
         /\ response[i].statusCode = 400 => (~InTable(i) /\ puts[i] = 0)
         /\ (response[i].statusCode = 500 /\ caught[i] # "OSError") => ~InTable(i)
         /\ (response[i].statusCode = 500 /\ caught[i] = "OSError") =>
              (putResult[i] = "ok" /\ InTable(i))

\* C10 witness: logging failed after the put: 500 returned, record stored
C10_Witness ==
  \E i \in Invocations :
    Done(i) /\ caught[i] = "OSError" /\ response[i].statusCode = 500 /\ InTable(i)
=============================================================================
